---- MODULE Spec2Model ----
(***************************************************************************)
(* AstraMindOS: the in-memory store (MemStorage), the AI gateway           *)
(* (chatWithAI, generateDailySummary) and the HTTP handlers of             *)
(* registerRoutes, as a state machine.  A handler is one action, except    *)
(* where it gives up control at an await that another request can          *)
(* overtake: POST /api/chat waits for the provider, PATCH /api/goals/:id   *)
(* reads the goal and updates it in two storage calls.                     *)
(***************************************************************************)
EXTENDS Integers, Sequences, FiniteSets, TLC

\* Bounds of the model.
MaxChatRequests == 2
MaxCrudRequests == 3
MaxTime == 1
MaxAllRequests == 2
TicksPerDay == 1
MaxMessageLength == 70   \* the longest chat message of SpecTitle
MaxTitleRequests == 1    \* requests received in SpecTitle

\* Program constants.
TitleLimit == 50
ExcerptLimit == 60

VARIABLES
  now,            \* the clock new Date() reads
  nextId,         \* the next value randomUUID() returns
  conversations,  \* MemStorage.conversations: a Map, as its entries in insertion order
  messages,       \* MemStorage.messages
  goals,          \* MemStorage.goals
  notes,          \* MemStorage.notes
  activities,     \* MemStorage.activities
  chats,          \* POST /api/chat handlers waiting for the provider (their locals)
  patches,        \* PATCH /api/goals/:id handlers between getGoal and updateGoal
  requests,       \* number of requests received so far
  last            \* the handler step that ran last, with the response it sent

stores == <<conversations, messages, goals, notes, activities>>
vars == <<now, nextId, conversations, messages, goals, notes, activities,
          chats, patches, requests, last>>

----------------------------------------------------------------------------
\* JavaScript values and objects

\* The values a JSON body can carry in a field, as far as the handlers tell
\* them apart: a missing field, a string, and a truthy value that is no string.
Absent == [kind |-> "undefined", text |-> ""]
Str(s) == [kind |-> "string", text |-> s]
NotAString == [kind |-> "number", text |-> "42"]
Null == [kind |-> "null", text |-> ""]
Arr(items) == [kind |-> "array", items |-> items]

\* A createdAt that is no date: new Date(v).getTime() is NaN.
InvalidDate == 0 - 1

\* new Date(d).getTime() is NaN
IsNaN(d) == d = InvalidDate

\* !v is false
Truthy(v) == v.kind = "number" \/ (v.kind = "string" /\ v.text # "")

\* { ...a, ...b }
Spread(a, b) ==
  [f \in (DOMAIN a) \cup (DOMAIN b) |-> IF f \in DOMAIN b THEN b[f] ELSE a[f]]

\* s.substring(0, n)
Substring(s, n) == IF Len(s) <= n THEN s ELSE SubSeq(s, 1, n)

\* s.substring(0, n) + (s.length > n ? "..." : "")
Truncate(s, n) == Substring(s, n) \o (IF Len(s) > n THEN "..." ELSE "")

\* A Map is the sequence of its entries in insertion order.
MapHas(map, key) == \E i \in 1..Len(map) : map[i].key = key

MapGet(map, key) == map[CHOOSE i \in 1..Len(map) : map[i].key = key].value

MapSet(map, key, value) ==
  IF MapHas(map, key)
  THEN [i \in 1..Len(map) |->
          IF map[i].key = key THEN [key |-> key, value |-> value] ELSE map[i]]
  ELSE Append(map, [key |-> key, value |-> value])

MapDelete(map, key) == SelectSeq(map, LAMBDA e : e.key # key)

MapValues(map) == [i \in 1..Len(map) |-> map[i].value]

MapKeys(map) == {map[i].key : i \in 1..Len(map)}

\* The comparator (a, b) => key(a) - key(b) returns a number above zero: a
\* difference with NaN is NaN, which sort takes for zero.
ComesAfter(a, b) == ~IsNaN(a) /\ ~IsNaN(b) /\ a > b

\* Array.prototype.sort with the comparator (a, b) => key(a) - key(b), as a
\* straight insertion sort: stable, so elements with equal keys keep their
\* order.  keys[i] is the key of seq[i]; descending says the comparator is
\* (a, b) => key(b) - key(a).
StableSort(seq, keys, descending) ==
  LET After(i, j) == IF descending THEN ComesAfter(keys[j], keys[i])
                     ELSE ComesAfter(keys[i], keys[j])
      RECURSIVE Sorted(_)
      Sorted(n) ==
        IF n = 0 THEN <<>>
        ELSE LET prefix == Sorted(n - 1)
                 stay == {k \in 1..Len(prefix) : ~After(prefix[k], n)}
                 p == IF stay = {} THEN 0
                      ELSE CHOOSE k \in stay : \A l \in stay : l <= k
             IN  SubSeq(prefix, 1, p) \o <<n>> \o SubSeq(prefix, p + 1, Len(prefix))
      order == Sorted(Len(seq))
  IN  [r \in 1..Len(seq) |-> seq[order[r]]]

----------------------------------------------------------------------------
\* MemStorage

getConversations(convs) ==
  LET all == MapValues(convs)
  IN  StableSort(all, [i \in 1..Len(all) |-> all[i].updatedAt], TRUE)

getConversation(convs, id) == MapGet(convs, id)

\* the record createConversation builds
newConversation(insertConversation, id, t) ==
  Spread(insertConversation, [id |-> id, createdAt |-> t, updatedAt |-> t])

createConversation(convs, insertConversation, id, t) ==
  MapSet(convs, id, newConversation(insertConversation, id, t))

\* updateConversation without the spread of the stored conversation
updateConversationReplacing(convs, id, data, t) ==
  IF ~MapHas(convs, id) THEN convs
  ELSE MapSet(convs, id,
              Spread(data, [id |-> MapGet(convs, id).id, updatedAt |-> t]))

\* updateConversation storing the patch under an id that is not stored
updateConversationUpserting(convs, id, data, t) ==
  IF ~MapHas(convs, id)
  THEN MapSet(convs, id, Spread(data, [id |-> id, updatedAt |-> t]))
  ELSE LET conversation == MapGet(convs, id)
       IN  MapSet(convs, id,
                  Spread(Spread(conversation, data),
                         [id |-> conversation.id, updatedAt |-> t]))

updateConversation(convs, id, data, t) ==
  IF ~MapHas(convs, id) THEN convs
  ELSE LET conversation == MapGet(convs, id)
       IN  MapSet(convs, id,
                  Spread(Spread(conversation, data),
                         [id |-> conversation.id, updatedAt |-> t]))

deleteConversation(convs, id) == MapDelete(convs, id)

getMessage(msgs, id) == MapGet(msgs, id)

\* getMessages sorting the newest first, as the other listings do
getMessagesNewestFirst(msgs, conversationId) ==
  LET mine == SelectSeq(MapValues(msgs), LAMBDA m : m.conversationId = conversationId)
  IN  StableSort(mine, [i \in 1..Len(mine) |-> mine[i].createdAt], TRUE)

getMessages(msgs, conversationId) ==
  LET mine == SelectSeq(MapValues(msgs), LAMBDA m : m.conversationId = conversationId)
  IN  StableSort(mine, [i \in 1..Len(mine) |-> mine[i].createdAt], FALSE)

newMessage(insertMessage, id, t) ==
  Spread(insertMessage, [id |-> id, createdAt |-> t])

\* createMessage without this.messages.set
createMessageNotStored(msgs, insertMessage, id, t) == msgs

createMessage(msgs, insertMessage, id, t) ==
  MapSet(msgs, id, newMessage(insertMessage, id, t))

getActivities(acts) ==
  LET all == MapValues(acts)
  IN  StableSort(all, [i \in 1..Len(all) |-> all[i].createdAt], TRUE)

newActivity(insertActivity, id, t) ==
  Spread(insertActivity, [id |-> id, createdAt |-> t])

\* createActivity storing under the key of the oldest Activity
createActivityOverwriting(acts, insertActivity, id, t) ==
  MapSet(acts, IF Len(acts) > 0 THEN acts[1].key ELSE id, newActivity(insertActivity, id, t))

\* createActivity without this.activities.set
createActivityNotStored(acts, insertActivity, id, t) == acts

createActivity(acts, insertActivity, id, t) ==
  MapSet(acts, id, newActivity(insertActivity, id, t))

getGoals(gs) ==
  LET all == MapValues(gs)
  IN  StableSort(all, [i \in 1..Len(all) |-> all[i].createdAt], TRUE)

getGoal(gs, id) == MapGet(gs, id)

newGoal(insertGoal, id, t) ==
  Spread(insertGoal,
         [id |-> id,
          progress |-> IF "progress" \in DOMAIN insertGoal THEN insertGoal.progress ELSE 0,
          completed |-> IF "completed" \in DOMAIN insertGoal THEN insertGoal.completed
                        ELSE FALSE,
          createdAt |-> t,
          updatedAt |-> t])

createGoal(gs, insertGoal, id, t) == MapSet(gs, id, newGoal(insertGoal, id, t))

\* updateGoal's record without the id written after the patch
updatedGoalTrustingPatch(goal, data, t) ==
  Spread(Spread(goal, data), [updatedAt |-> t])

\* the record updateGoal stores for a goal that exists
updatedGoal(goal, data, t) ==
  Spread(Spread(goal, data), [id |-> goal.id, updatedAt |-> t])

updateGoal(gs, id, data, t) ==
  IF ~MapHas(gs, id) THEN gs
  ELSE MapSet(gs, id, updatedGoal(MapGet(gs, id), data, t))

deleteGoal(gs, id) == MapDelete(gs, id)

getNotes(ns) ==
  LET all == MapValues(ns)
  IN  StableSort(all, [i \in 1..Len(all) |-> all[i].createdAt], TRUE)

getNote(ns, id) == MapGet(ns, id)

\* createNote stamping tags = [] whatever the input carries
newNoteDefaultingAlways(insertNote, id, t) ==
  Spread(insertNote, [id |-> id, tags |-> Arr(<<>>), createdAt |-> t, updatedAt |-> t])

newNote(insertNote, id, t) ==
  Spread(insertNote,
         [id |-> id,
          tags |-> IF "tags" \in DOMAIN insertNote /\ insertNote.tags # Null
                   THEN insertNote.tags ELSE Arr(<<>>),
          createdAt |-> t,
          updatedAt |-> t])

createNote(ns, insertNote, id, t) == MapSet(ns, id, newNote(insertNote, id, t))

\* updateNote's record without the id written after the patch
updatedNoteTrustingPatch(note, data, t) ==
  Spread(Spread(note, data), [updatedAt |-> t])

updatedNote(note, data, t) ==
  Spread(Spread(note, data), [id |-> note.id, updatedAt |-> t])

updateNote(ns, id, data, t) ==
  IF ~MapHas(ns, id) THEN ns
  ELSE MapSet(ns, id, updatedNote(MapGet(ns, id), data, t))

deleteNote(ns, id) == MapDelete(ns, id)

----------------------------------------------------------------------------
\* AI gateway (gemini.ts)

FallbackReply == "I'm sorry, I couldn't generate a response. Please try again."

\* What ai.models.generateContent can do: throw, or return a response whose
\* text is empty or not.
ChatProviderOutcomes ==
  { [throws |-> TRUE,  text |-> ""],
    [throws |-> FALSE, text |-> ""],
    [throws |-> FALSE, text |-> "Here is a plan."] }

\* the transcript sent to the provider
chatContents(message, conversationHistory) ==
  Append([i \in 1..Len(conversationHistory) |->
            [role |-> IF conversationHistory[i].role = "assistant" THEN "model" ELSE "user",
             text |-> conversationHistory[i].content]],
         [role |-> "user", text |-> message])

\* chatWithAI failing where the provider returns no text
chatWithAIWithoutFallback(message, conversationHistory, provider) ==
  IF provider.throws \/ provider.text = ""
  THEN [threw |-> TRUE, value |-> "Failed to get AI response"]
  ELSE [threw |-> FALSE, value |-> provider.text]

\* chatWithAI masking a provider error the way generateDailySummary does
chatWithAIMasked(message, conversationHistory, provider) ==
  [threw |-> FALSE,
   value |-> IF ~provider.throws /\ provider.text # "" THEN provider.text
             ELSE FallbackReply]

\* chatWithAI, given what the provider does with the request
chatWithAI(message, conversationHistory, provider) ==
  IF provider.throws
  THEN [threw |-> TRUE, value |-> "Failed to get AI response"]
  ELSE [threw |-> FALSE,
        value |-> IF provider.text # "" THEN provider.text ELSE FallbackReply]

\* What ai.models.generateContent can do for the daily summary: throw, or
\* return a response whose text is empty, an empty list, a list of strings
\* or no JSON at all.
SummaryProviderOutcomes ==
  { [throws |-> TRUE,  text |-> ""],
    [throws |-> FALSE, text |-> ""],
    [throws |-> FALSE, text |-> "[]"],
    [throws |-> FALSE, text |-> "[\"Great focus today!\",\"Keep going.\"]"],
    [throws |-> FALSE, text |-> "Sorry, no insights"] }

\* JSON.parse on the text of an array of strings (no blanks, no escapes):
\* [threw, value], threw when the text is not such an array.
JsonParse(text) ==
  LET n == Len(text)
      Char(i) == IF i \in 1..n THEN SubSeq(text, i, i) ELSE ""
      Failed == [threw |-> TRUE, value |-> <<>>]
      RECURSIVE Items(_, _)
      \* text[i] opens the next string of the array; acc holds those read
      Items(i, acc) ==
        IF Char(i) # "\"" THEN Failed
        ELSE LET closing == {j \in (i + 1)..n : Char(j) = "\""}
             IN  IF closing = {} THEN Failed
                 ELSE LET j == CHOOSE k \in closing : \A l \in closing : k <= l
                          read == Append(acc, SubSeq(text, i + 1, j - 1))
                      IN  IF Char(j + 1) = "," THEN Items(j + 2, read)
                          ELSE IF Char(j + 1) = "]" /\ j + 1 = n
                               THEN [threw |-> FALSE, value |-> read]
                               ELSE Failed
  IN  IF text = "[]" THEN [threw |-> FALSE, value |-> <<>>]
      ELSE IF Char(1) = "[" THEN Items(2, <<>>)
      ELSE Failed

\* generateDailySummary without its catch block
generateDailySummaryUnmasked(chatCount, goalCount, noteCount, provider) ==
  LET parsed == JsonParse(IF provider.text # "" THEN provider.text ELSE "[]")
  IN  IF provider.throws \/ parsed.threw
      THEN [threw |-> TRUE, value |-> <<>>]
      ELSE [threw |-> FALSE,
            value |-> IF Len(parsed.value) > 0 THEN parsed.value
                      ELSE <<"Keep up the great work!", "Every step forward counts.">>]

\* generateDailySummary, given what the provider does with the request
generateDailySummary(chatCount, goalCount, noteCount, provider) ==
  LET parsed == JsonParse(IF provider.text # "" THEN provider.text ELSE "[]")
  IN  IF provider.throws \/ parsed.threw
      THEN [threw |-> FALSE,
            value |-> <<"Keep building your momentum!", "Great progress today.">>]
      ELSE [threw |-> FALSE,
            value |-> IF Len(parsed.value) > 0 THEN parsed.value
                      ELSE <<"Keep up the great work!", "Every step forward counts.">>]

----------------------------------------------------------------------------
\* HTTP handlers (registerRoutes)

NoId == 0    \* a conversationId that is missing (or otherwise falsy)

DeleteOps ==
  {"DELETE /api/conversations/:id", "DELETE /api/goals/:id", "DELETE /api/notes/:id"}

\* The ids a client can put in a request for a record of a store: those of
\* the records stored, one that names none, and the id of the DELETE
\* answered last (a client repeating its request).
RequestIds(map) ==
  MapKeys(map) \cup {nextId} \cup (IF last.op \in DeleteOps THEN {last.req} ELSE {})

LongMessage == "Plan my week: gym on Monday, report due Wednesday, call mum on Friday!"

ChatMessages == { Absent, Str(""), NotAString, Str("Hello"), Str(LongMessage) }

ChatBodies ==
  [message : ChatMessages, conversationId : {NoId} \cup RequestIds(conversations)]

\* a not-found branch without its return: the handler goes on to res.json
RespondWithoutReturn(op, req, status, res) ==
  last' = [seq |-> last.seq + 1, op |-> op, req |-> req, status |-> status, res |-> res,
           sent |-> last.sent + (IF status = 404 THEN 2 ELSE IF status # 0 THEN 1 ELSE 0)]

\* res.json / res.status(...).json; status 0: the handler waits at an await
\* and has sent nothing yet.  sent counts the responses sent so far.
Respond(op, req, status, res) ==
  last' = [seq |-> last.seq + 1, op |-> op, req |-> req, status |-> status, res |-> res,
           sent |-> last.sent + (IF status # 0 THEN 1 ELSE 0)]

Receive == requests' = requests + 1

\* conversationHistory without the filter on userMessage.id
chatHistoryUnfiltered(msgs, convId, userMessage) ==
  LET kept == getMessages(msgs, convId)
  IN  [i \in 1..Len(kept) |-> [role |-> kept[i].role, content |-> kept[i].content]]

\* conversationHistory of the chat handler
chatHistory(msgs, convId, userMessage) ==
  LET kept == SelectSeq(getMessages(msgs, convId), LAMBDA m : m.id # userMessage.id)
  IN  [i \in 1..Len(kept) |-> [role |-> kept[i].role, content |-> kept[i].content]]

\* the title with the ellipsis appended whatever the length
chatTitleAlwaysEllipsis(message) == Substring(message, TitleLimit) \o "..."

chatTitle(message) == Truncate(message, TitleLimit)

\* the chat Activity logged under another type
chatActivityMistyped(message) ==
  [type |-> "conversation",
   description |-> "Had a conversation about: " \o Truncate(message, ExcerptLimit)]

chatActivity(message) ==
  [type |-> "chat",
   description |-> "Had a conversation about: " \o Truncate(message, ExcerptLimit)]

\* the message check without its typeof test
validChatMessageUntyped(message) == Truthy(message)

\* !message || typeof message !== "string" is false
validChatMessage(message) == Truthy(message) /\ message.kind = "string"

\* the lookup of the conversation without its not-found branch
conversationFoundAlways(convs, convId) == TRUE

\* the conversation the request names is found
conversationFound(convs, convId) == MapHas(convs, convId)

\* POST /api/chat, up to the call of the provider
PostChat(body) ==
  /\ Receive
  /\ IF ~validChatMessage(body.message)
     THEN /\ Respond("POST /api/chat", body, 400, [error |-> "Message is required"])
          /\ UNCHANGED <<now, nextId, stores, chats, patches>>
     ELSE IF body.conversationId # NoId
             /\ ~conversationFound(conversations, body.conversationId)
     THEN /\ Respond("POST /api/chat", body, 404, [error |-> "Conversation not found"])
          /\ UNCHANGED <<now, nextId, stores, chats, patches>>
     ELSE LET message == body.message.text
              isNew == body.conversationId = NoId
              convId == IF isNew THEN nextId ELSE body.conversationId
              msgId == IF isNew THEN nextId + 1 ELSE nextId
              insertMessage ==
                [conversationId |-> convId, role |-> "user", content |-> message]
              userMessage == newMessage(insertMessage, msgId, now)
              msgs1 == createMessage(messages, insertMessage, msgId, now)
              chat == [req |-> body, convId |-> convId, userMessage |-> userMessage,
                       message |-> message,
                       conversationHistory |-> chatHistory(msgs1, convId, userMessage)]
          IN  /\ conversations' =
                   IF isNew
                   THEN createConversation(conversations,
                                           [title |-> Str(chatTitle(message))],
                                           nextId, now)
                   ELSE conversations
              /\ messages' = msgs1
              /\ nextId' = msgId + 1
              /\ chats' = chats \cup {chat}
              /\ Respond("POST /api/chat", body, 0, chat)
              /\ UNCHANGED <<now, goals, notes, activities, patches>>

\* POST /api/chat, from the provider's answer on
PostChatResume(chat, provider) ==
  /\ chat \in chats
  /\ chats' = chats \ {chat}
  /\ LET aiResponse == chatWithAI(chat.message, chat.conversationHistory, provider)
     IN  IF aiResponse.threw
         THEN /\ Respond("POST /api/chat", [chat |-> chat, provider |-> provider], 500,
                         [error |-> "Failed to process chat message"])
              /\ UNCHANGED <<now, nextId, stores, patches, requests>>
         ELSE LET insertMessage == [conversationId |-> chat.convId, role |-> "assistant",
                                    content |-> aiResponse.value]
                  aiMessage == newMessage(insertMessage, nextId, now)
              IN  /\ messages' = createMessage(messages, insertMessage, nextId, now)
                  /\ conversations' = updateConversation(conversations, chat.convId,
                                                         [updatedAt |-> now], now)
                  /\ activities' = createActivity(activities, chatActivity(chat.message),
                                                  nextId + 1, now)
                  /\ nextId' = nextId + 2
                  /\ Respond("POST /api/chat", [chat |-> chat, provider |-> provider], 200,
                             [message |-> aiMessage, conversationId |-> chat.convId])
                  /\ UNCHANGED <<now, goals, notes, patches, requests>>

\* DELETE /api/conversations/:id
DeleteConversation(id) ==
  /\ Receive
  /\ conversations' = deleteConversation(conversations, id)
  /\ IF MapHas(conversations, id)
     THEN Respond("DELETE /api/conversations/:id", id, 200, [success |-> TRUE])
     ELSE Respond("DELETE /api/conversations/:id", id, 404,
                  [error |-> "Conversation not found"])
  /\ UNCHANGED <<now, nextId, messages, goals, notes, activities, chats, patches>>

\* schema.ts: what insertConversationSchema.parse accepts, and the object it
\* returns (unknown keys are stripped)
ConversationFields == {"title"}

validInsertConversation(body) ==
  /\ "title" \in DOMAIN body
  /\ body.title.kind = "string"

parseInsertConversation(body) ==
  [f \in (DOMAIN body) \cap ConversationFields |-> body[f]]

ConversationBodies ==
  { [title |-> Str("Trip")],
    [title |-> NotAString],
    <<>> }

ConversationPatches ==
  { <<>>,
    [title |-> Str("Renamed")],
    [title |-> NotAString],
    [id |-> NoId, updatedAt |-> InvalidDate, title |-> Str("Moved")] }

\* POST /api/conversations
PostConversation(body) ==
  /\ Receive
  /\ IF ~validInsertConversation(body)
     THEN /\ Respond("POST /api/conversations", body, 400,
                     [error |-> "Invalid conversation data"])
          /\ UNCHANGED <<now, nextId, stores, chats, patches>>
     ELSE LET data == parseInsertConversation(body)
          IN  /\ conversations' = createConversation(conversations, data, nextId, now)
              /\ nextId' = nextId + 1
              /\ Respond("POST /api/conversations", body, 200,
                         newConversation(data, nextId, now))
              /\ UNCHANGED <<now, messages, goals, notes, activities, chats, patches>>

\* PATCH /api/conversations/:id
PatchConversation(id, body) ==
  /\ Receive
  /\ conversations' = updateConversation(conversations, id, body, now)
  /\ IF ~MapHas(conversations, id)
     THEN Respond("PATCH /api/conversations/:id", [id |-> id, body |-> body], 404,
                  [error |-> "Conversation not found"])
     ELSE Respond("PATCH /api/conversations/:id", [id |-> id, body |-> body], 200,
                  getConversation(conversations', id))
  /\ UNCHANGED <<now, nextId, messages, goals, notes, activities, chats, patches>>

\* insertActivitySchema.parse asking for the fields but not for their type
validInsertActivityUntyped(body) ==
  /\ "type" \in DOMAIN body
  /\ "description" \in DOMAIN body

\* schema.ts: what insertActivitySchema.parse accepts, and the object it
\* returns; a field that passed z.string() is kept as its text
validInsertActivity(body) ==
  /\ "type" \in DOMAIN body
  /\ body.type.kind = "string"
  /\ "description" \in DOMAIN body
  /\ body.description.kind = "string"

parseInsertActivity(body) ==
  [type |-> body.type.text, description |-> body.description.text]

ActivityBodies ==
  { [type |-> Str("chat"), description |-> Str("Talked it over")],
    [type |-> Str("note_created"), description |-> Str("Imported a note")],
    [type |-> Str("goal_completed"), description |-> Str("Imported a completion")],
    [type |-> NotAString, description |-> Str("Typed wrongly")],
    [type |-> Str("chat")] }

\* POST /api/activities
PostActivity(body) ==
  /\ Receive
  /\ IF ~validInsertActivity(body)
     THEN /\ Respond("POST /api/activities", body, 400, [error |-> "Invalid activity data"])
          /\ UNCHANGED <<now, nextId, stores, chats, patches>>
     ELSE LET data == parseInsertActivity(body)
          IN  /\ activities' = createActivity(activities, data, nextId, now)
              /\ nextId' = nextId + 1
              /\ Respond("POST /api/activities", body, 200, newActivity(data, nextId, now))
              /\ UNCHANGED <<now, conversations, messages, goals, notes, chats, patches>>

\* schema.ts: what insertGoalSchema.parse accepts, and the object it returns
GoalFields == {"title", "description", "category", "progress", "targetDate", "completed"}

validInsertGoal(body) ==
  /\ "title" \in DOMAIN body
  /\ body.title.kind = "string"
  /\ "category" \in DOMAIN body

parseInsertGoal(body) == [f \in (DOMAIN body) \cap GoalFields |-> body[f]]

NoteFields == {"title", "content", "tags"}

validInsertNote(body) ==
  /\ "title" \in DOMAIN body
  /\ body.title.kind = "string"
  /\ "content" \in DOMAIN body

parseInsertNote(body) == [f \in (DOMAIN body) \cap NoteFields |-> body[f]]

GoalBodies ==
  { [title |-> Str("Learn X"), category |-> "learning"],
    [title |-> Str("Run 10k"), category |-> "health", progress |-> 100, completed |-> TRUE],
    [category |-> "learning"] }

GoalPatches ==
  { <<>>,
    [completed |-> TRUE],
    [completed |-> FALSE],
    [progress |-> 50],
    [progress |-> 100, completed |-> TRUE],
    [title |-> NotAString],
    [id |-> NoId, updatedAt |-> InvalidDate, progress |-> 50],
    [createdAt |-> InvalidDate] }

NoteBodies ==
  { [title |-> Str("Idea"), content |-> "Try TLA+"],
    [title |-> Str("Shopping"), content |-> "Milk", tags |-> Arr(<<"home">>)],
    [title |-> Str("Draft"), content |-> "Later", tags |-> Null],
    [content |-> "no title"] }

NotePatches ==
  { <<>>,
    [content |-> "Edited"],
    [tags |-> Arr(<<"work", "urgent">>)],
    [title |-> NotAString],
    [id |-> NoId, updatedAt |-> InvalidDate, title |-> Str("Renamed")] }

\* POST /api/goals
PostGoal(body) ==
  /\ Receive
  /\ IF ~validInsertGoal(body)
     THEN /\ Respond("POST /api/goals", body, 400, [error |-> "Invalid goal data"])
          /\ UNCHANGED <<now, nextId, stores, chats, patches>>
     ELSE LET data == parseInsertGoal(body)
              goal == newGoal(data, nextId, now)
          IN  /\ goals' = createGoal(goals, data, nextId, now)
              /\ activities' = createActivity(activities,
                                 [type |-> "goal_created",
                                  description |-> "Created goal: " \o goal.title.text],
                                 nextId + 1, now)
              /\ nextId' = nextId + 2
              /\ Respond("POST /api/goals", body, 200, goal)
              /\ UNCHANGED <<now, conversations, messages, notes, chats, patches>>

\* PATCH /api/goals/:id, up to the return of getGoal
PatchGoal(id, body) ==
  /\ Receive
  /\ IF ~MapHas(goals, id)
     THEN /\ Respond("PATCH /api/goals/:id", [id |-> id, body |-> body], 404,
                     [error |-> "Goal not found"])
          /\ UNCHANGED patches
     ELSE LET patch == [n |-> requests', id |-> id, body |-> body,
                        existingGoal |-> getGoal(goals, id)]
          IN  /\ patches' = patches \cup {patch}
              /\ Respond("PATCH /api/goals/:id", [id |-> id, body |-> body], 0, patch)
  /\ UNCHANGED <<now, nextId, stores, chats>>

\* the Activity of the PATCH handler without the look at the prior record
patchGoalActivityIgnoringPrior(body, existingGoal, goal) ==
  IF "completed" \in DOMAIN body /\ body.completed = TRUE
  THEN [type |-> "goal_completed", description |-> "Completed goal: " \o goal.title.text]
  ELSE [type |-> "goal_updated", description |-> "Updated goal: " \o goal.title.text]

\* the Activity the PATCH handler logs
patchGoalActivity(body, existingGoal, goal) ==
  IF "completed" \in DOMAIN body /\ body.completed = TRUE /\ ~existingGoal.completed
  THEN [type |-> "goal_completed", description |-> "Completed goal: " \o goal.title.text]
  ELSE [type |-> "goal_updated", description |-> "Updated goal: " \o goal.title.text]

\* PATCH /api/goals/:id, from updateGoal on
PatchGoalResume(patch) ==
  /\ patch \in patches
  /\ patches' = patches \ {patch}
  /\ IF ~MapHas(goals, patch.id)
     THEN /\ Respond("PATCH /api/goals/:id", patch, 404, [error |-> "Goal not found"])
          /\ UNCHANGED <<nextId, stores>>
     ELSE LET goal == updatedGoal(getGoal(goals, patch.id), patch.body, now)
          IN  /\ goals' = updateGoal(goals, patch.id, patch.body, now)
              /\ activities' = createActivity(activities,
                                 patchGoalActivity(patch.body, patch.existingGoal, goal),
                                 nextId, now)
              /\ nextId' = nextId + 1
              /\ Respond("PATCH /api/goals/:id", patch, 200, goal)
              /\ UNCHANGED <<conversations, messages, notes>>
  /\ UNCHANGED <<now, chats, requests>>

\* DELETE /api/goals/:id logging an Activity as the other goal mutations do
DeleteGoalLogged(id) ==
  /\ Receive
  /\ goals' = deleteGoal(goals, id)
  /\ IF MapHas(goals, id)
     THEN /\ activities' = createActivity(activities,
                             [type |-> "goal_deleted", description |-> "Deleted goal"],
                             nextId, now)
          /\ nextId' = nextId + 1
          /\ Respond("DELETE /api/goals/:id", id, 200, [success |-> TRUE])
     ELSE /\ Respond("DELETE /api/goals/:id", id, 404, [error |-> "Goal not found"])
          /\ UNCHANGED <<nextId, activities>>
  /\ UNCHANGED <<now, conversations, messages, notes, chats, patches>>

\* DELETE /api/goals/:id
DeleteGoal(id) ==
  /\ Receive
  /\ goals' = deleteGoal(goals, id)
  /\ IF MapHas(goals, id)
     THEN Respond("DELETE /api/goals/:id", id, 200, [success |-> TRUE])
     ELSE Respond("DELETE /api/goals/:id", id, 404, [error |-> "Goal not found"])
  /\ UNCHANGED <<now, nextId, conversations, messages, notes, activities, chats, patches>>

\* POST /api/notes
PostNote(body) ==
  /\ Receive
  /\ IF ~validInsertNote(body)
     THEN /\ Respond("POST /api/notes", body, 400, [error |-> "Invalid note data"])
          /\ UNCHANGED <<now, nextId, stores, chats, patches>>
     ELSE LET data == parseInsertNote(body)
              note == newNote(data, nextId, now)
          IN  /\ notes' = createNote(notes, data, nextId, now)
              /\ activities' = createActivity(activities,
                                 [type |-> "note_created",
                                  description |-> "Created note: " \o note.title.text],
                                 nextId + 1, now)
              /\ nextId' = nextId + 2
              /\ Respond("POST /api/notes", body, 200, note)
              /\ UNCHANGED <<now, conversations, messages, goals, chats, patches>>

\* PATCH /api/notes/:id
PatchNote(id, body) ==
  /\ Receive
  /\ IF ~MapHas(notes, id)
     THEN /\ Respond("PATCH /api/notes/:id", [id |-> id, body |-> body], 404,
                     [error |-> "Note not found"])
          /\ UNCHANGED <<nextId, stores>>
     ELSE LET note == updatedNote(getNote(notes, id), body, now)
          IN  /\ notes' = updateNote(notes, id, body, now)
              /\ activities' = createActivity(activities,
                                 [type |-> "note_updated",
                                  description |-> "Updated note: " \o note.title.text],
                                 nextId, now)
              /\ nextId' = nextId + 1
              /\ Respond("PATCH /api/notes/:id", [id |-> id, body |-> body], 200, note)
              /\ UNCHANGED <<conversations, messages, goals>>
  /\ UNCHANGED <<now, chats, patches>>

\* DELETE /api/notes/:id answering 200 whatever deleteNote returns
DeleteNoteAlwaysSucceeds(id) ==
  /\ Receive
  /\ notes' = deleteNote(notes, id)
  /\ Respond("DELETE /api/notes/:id", id, 200, [success |-> TRUE])
  /\ UNCHANGED <<now, nextId, conversations, messages, goals, activities, chats, patches>>

\* DELETE /api/notes/:id
DeleteNote(id) ==
  /\ Receive
  /\ notes' = deleteNote(notes, id)
  /\ IF MapHas(notes, id)
     THEN Respond("DELETE /api/notes/:id", id, 200, [success |-> TRUE])
     ELSE Respond("DELETE /api/notes/:id", id, 404, [error |-> "Note not found"])
  /\ UNCHANGED <<now, nextId, conversations, messages, goals, activities, chats, patches>>

\* GET /api/conversations
GetConversations ==
  /\ Receive
  /\ Respond("GET /api/conversations", NoId, 200, getConversations(conversations))
  /\ UNCHANGED <<now, nextId, stores, chats, patches>>

\* GET /api/conversations/:id
GetConversation(id) ==
  /\ Receive
  /\ IF ~MapHas(conversations, id)
     THEN Respond("GET /api/conversations/:id", id, 404, [error |-> "Conversation not found"])
     ELSE Respond("GET /api/conversations/:id", id, 200, getConversation(conversations, id))
  /\ UNCHANGED <<now, nextId, stores, chats, patches>>

\* GET /api/conversations/:conversationId/messages
GetMessages(conversationId) ==
  /\ Receive
  /\ Respond("GET /api/conversations/:conversationId/messages", conversationId, 200,
             getMessages(messages, conversationId))
  /\ UNCHANGED <<now, nextId, stores, chats, patches>>

\* GET /api/goals
GetGoals ==
  /\ Receive
  /\ Respond("GET /api/goals", NoId, 200, getGoals(goals))
  /\ UNCHANGED <<now, nextId, stores, chats, patches>>

\* GET /api/goals/:id
GetGoal(id) ==
  /\ Receive
  /\ IF ~MapHas(goals, id)
     THEN Respond("GET /api/goals/:id", id, 404, [error |-> "Goal not found"])
     ELSE Respond("GET /api/goals/:id", id, 200, getGoal(goals, id))
  /\ UNCHANGED <<now, nextId, stores, chats, patches>>

\* GET /api/notes
GetNotes ==
  /\ Receive
  /\ Respond("GET /api/notes", NoId, 200, getNotes(notes))
  /\ UNCHANGED <<now, nextId, stores, chats, patches>>

\* GET /api/notes/:id
GetNote(id) ==
  /\ Receive
  /\ IF ~MapHas(notes, id)
     THEN Respond("GET /api/notes/:id", id, 404, [error |-> "Note not found"])
     ELSE Respond("GET /api/notes/:id", id, 200, getNote(notes, id))
  /\ UNCHANGED <<now, nextId, stores, chats, patches>>

\* GET /api/activities
GetActivities ==
  /\ Receive
  /\ Respond("GET /api/activities", NoId, 200, getActivities(activities))
  /\ UNCHANGED <<now, nextId, stores, chats, patches>>

\* format(...) giving every time the same day
DateOfEpoch(t) == 0

\* format(new Date(t), "yyyy-MM-dd"): the calendar day of a time
DateOf(t) == t \div TicksPerDay

\* GET /api/summary/daily
\* the summary handler logging an Activity, as the writing handlers do
GetDailySummaryLogging(provider) ==
  /\ Receive
  /\ LET today == DateOf(now)
         todayActivities ==
           SelectSeq(getActivities(activities), LAMBDA a : DateOf(a.createdAt) = today)
         count(type) == Len(SelectSeq(todayActivities, LAMBDA a : a.type = type))
         insights == generateDailySummary(count("chat"), count("goal_completed"),
                                          count("note_created"), provider)
     IN  Respond("GET /api/summary/daily", provider, 200,
                 [date |-> today, totalChats |-> count("chat"),
                  goalsCompleted |-> count("goal_completed"),
                  notesCreated |-> count("note_created"), insights |-> insights.value])
  /\ activities' = createActivity(activities,
                                  [type |-> "summary",
                                   description |-> "Viewed the daily summary"],
                                  nextId, now)
  /\ nextId' = nextId + 1
  /\ UNCHANGED <<now, conversations, messages, goals, notes, chats, patches>>

GetDailySummary(provider) ==
  /\ Receive
  /\ LET today == DateOf(now)
         todayActivities ==
           SelectSeq(getActivities(activities), LAMBDA a : DateOf(a.createdAt) = today)
         totalChats == Len(SelectSeq(todayActivities, LAMBDA a : a.type = "chat"))
         goalsCompleted ==
           Len(SelectSeq(todayActivities, LAMBDA a : a.type = "goal_completed"))
         notesCreated ==
           Len(SelectSeq(todayActivities, LAMBDA a : a.type = "note_created"))
         insights == generateDailySummary(totalChats, goalsCompleted, notesCreated, provider)
     IN  IF insights.threw
         THEN Respond("GET /api/summary/daily", provider, 500,
                      [error |-> "Failed to generate daily summary"])
         ELSE Respond("GET /api/summary/daily", provider, 200,
                      [date |-> today, totalChats |-> totalChats,
                       goalsCompleted |-> goalsCompleted, notesCreated |-> notesCreated,
                       insights |-> insights.value])
  /\ UNCHANGED <<now, nextId, stores, chats, patches>>

\* Time passes between two steps.
Tick ==
  /\ now < MaxTime
  /\ now' = now + 1
  /\ UNCHANGED <<nextId, stores, chats, patches, requests, last>>

----------------------------------------------------------------------------
Init ==
  /\ now = 0
  /\ nextId = 1
  /\ conversations = <<>>
  /\ messages = <<>>
  /\ goals = <<>>
  /\ notes = <<>>
  /\ activities = <<>>
  /\ chats = {}
  /\ patches = {}
  /\ requests = 0
  /\ last = [seq |-> 0, op |-> "", req |-> NoId, status |-> 0, res |-> NoId, sent |-> 0]

\* A state the server is in after POST /api/goals, POST /api/notes and
\* POST /api/conversations have been served: one goal, one note, their two
\* activities and one conversation without messages.
InitSeeded ==
  LET goal == [title |-> Str("Learn X"), category |-> "learning"]
      note == [title |-> Str("Idea"), content |-> "Try TLA+"]
  IN  /\ now = 0
      /\ nextId = 6
      /\ conversations = createConversation(<<>>, [title |-> Str("Trip")], 5, 0)
      /\ messages = <<>>
      /\ goals = createGoal(<<>>, goal, 1, 0)
      /\ notes = createNote(<<>>, note, 3, 0)
      /\ activities =
           createActivity(
             createActivity(<<>>, [type |-> "goal_created",
                                   description |-> "Created goal: Learn X"], 2, 0),
             [type |-> "note_created", description |-> "Created note: Idea"], 4, 0)
      /\ chats = {}
      /\ patches = {}
      /\ requests = 0
      /\ last = [seq |-> 0, op |-> "", req |-> NoId, status |-> 0, res |-> NoId, sent |-> 0]

\* Chat and conversation requests, at most MaxChatRequests of them.
NextChat ==
  \/ \E body \in ChatBodies : requests < MaxChatRequests /\ PostChat(body)
  \/ \E chat \in chats, provider \in ChatProviderOutcomes : PostChatResume(chat, provider)
  \/ \E id \in RequestIds(conversations) :
       requests < MaxChatRequests /\ DeleteConversation(id)
  \/ Tick

SpecChat == (Init \/ InitSeeded) /\ [][NextChat]_vars

\* Chat messages of every length up to MaxMessageLength
TitleMessages ==
  {SubSeq(LongMessage \o LongMessage, 1, n) : n \in 0..MaxMessageLength}

\* Chat requests that open a conversation, at most MaxTitleRequests of them.
NextTitle ==
  \/ \E message \in TitleMessages :
       /\ requests < MaxTitleRequests
       /\ PostChat([message |-> Str(message), conversationId |-> NoId])
  \/ \E chat \in chats, provider \in ChatProviderOutcomes : PostChatResume(chat, provider)
  \/ Tick

SpecTitle == Init /\ [][NextTitle]_vars

\* Create, update and delete requests, at most MaxCrudRequests of them.
NextCrud ==
  \/ \E body \in GoalBodies : requests < MaxCrudRequests /\ PostGoal(body)
  \/ \E id \in RequestIds(goals), body \in GoalPatches :
       requests < MaxCrudRequests /\ PatchGoal(id, body)
  \/ \E patch \in patches : PatchGoalResume(patch)
  \/ \E id \in RequestIds(goals) : requests < MaxCrudRequests /\ DeleteGoal(id)
  \/ \E body \in NoteBodies : requests < MaxCrudRequests /\ PostNote(body)
  \/ \E id \in RequestIds(notes), body \in NotePatches :
       requests < MaxCrudRequests /\ PatchNote(id, body)
  \/ \E id \in RequestIds(notes) : requests < MaxCrudRequests /\ DeleteNote(id)
  \/ \E body \in ConversationBodies : requests < MaxCrudRequests /\ PostConversation(body)
  \/ \E id \in RequestIds(conversations), body \in ConversationPatches :
       requests < MaxCrudRequests /\ PatchConversation(id, body)
  \/ \E id \in RequestIds(conversations) :
       requests < MaxCrudRequests /\ DeleteConversation(id)
  \/ \E body \in ActivityBodies : requests < MaxCrudRequests /\ PostActivity(body)
  \/ Tick

SpecCrud == Init /\ [][NextCrud]_vars

\* Summary requests over a log that activity, goal and chat requests fill.
NextSummary ==
  \/ \E provider \in SummaryProviderOutcomes :
       requests < MaxCrudRequests /\ GetDailySummary(provider)
  \/ \E body \in ActivityBodies : requests < MaxCrudRequests /\ PostActivity(body)
  \/ Tick

SpecSummary == (Init \/ InitSeeded) /\ [][NextSummary]_vars

\* Every request of the API, at most MaxAllRequests of them.
NextAll ==
  \/ \E body \in ChatBodies : requests < MaxAllRequests /\ PostChat(body)
  \/ \E chat \in chats, provider \in ChatProviderOutcomes : PostChatResume(chat, provider)
  \/ \E body \in ConversationBodies : requests < MaxAllRequests /\ PostConversation(body)
  \/ \E id \in RequestIds(conversations), body \in ConversationPatches :
       requests < MaxAllRequests /\ PatchConversation(id, body)
  \/ \E id \in RequestIds(conversations) :
       requests < MaxAllRequests /\ DeleteConversation(id)
  \/ \E body \in GoalBodies : requests < MaxAllRequests /\ PostGoal(body)
  \/ \E id \in RequestIds(goals), body \in GoalPatches :
       requests < MaxAllRequests /\ PatchGoal(id, body)
  \/ \E patch \in patches : PatchGoalResume(patch)
  \/ \E id \in RequestIds(goals) : requests < MaxAllRequests /\ DeleteGoal(id)
  \/ \E body \in NoteBodies : requests < MaxAllRequests /\ PostNote(body)
  \/ \E id \in RequestIds(notes), body \in NotePatches :
       requests < MaxAllRequests /\ PatchNote(id, body)
  \/ \E id \in RequestIds(notes) : requests < MaxAllRequests /\ DeleteNote(id)
  \/ \E body \in ActivityBodies : requests < MaxAllRequests /\ PostActivity(body)
  \/ requests < MaxAllRequests /\ GetConversations
  \/ \E id \in RequestIds(conversations) :
       requests < MaxAllRequests /\ GetConversation(id)
  \/ \E id \in RequestIds(conversations) : requests < MaxAllRequests /\ GetMessages(id)
  \/ requests < MaxAllRequests /\ GetGoals
  \/ \E id \in RequestIds(goals) : requests < MaxAllRequests /\ GetGoal(id)
  \/ requests < MaxAllRequests /\ GetNotes
  \/ \E id \in RequestIds(notes) : requests < MaxAllRequests /\ GetNote(id)
  \/ requests < MaxAllRequests /\ GetActivities
  \/ \E provider \in SummaryProviderOutcomes :
       requests < MaxAllRequests /\ GetDailySummary(provider)
  \/ Tick

SpecAll == (Init \/ InitSeeded) /\ [][NextAll]_vars

\* The continuation of a handler waiting at an await.
ResumeChat == \E chat \in chats, provider \in ChatProviderOutcomes : PostChatResume(chat, provider)

\* a server where no continuation runs while a chat waits for the provider
ResumePatchGoalBehindChats == chats = {} /\ \E patch \in patches : PatchGoalResume(patch)

ResumePatchGoal == \E patch \in patches : PatchGoalResume(patch)

\* SpecAll where the event loop runs every continuation that is ready, and
\* every provider call returns or throws in the end.
SpecAllLive == SpecAll /\ WF_vars(ResumePatchGoal) /\ WF_vars(ResumeChat)

\* SpecAll where the event loop runs every continuation that is ready, and a
\* provider call may stay unanswered for ever.
SpecAllHang == SpecAll /\ WF_vars(ResumePatchGoal)

----------------------------------------------------------------------------
\* Properties

OpChat == "POST /api/chat"
OpPostGoal == "POST /api/goals"
OpPatchGoal == "PATCH /api/goals/:id"
OpDeleteGoal == "DELETE /api/goals/:id"
OpPostNote == "POST /api/notes"
OpPatchNote == "PATCH /api/notes/:id"
OpDeleteNote == "DELETE /api/notes/:id"
OpPostConversation == "POST /api/conversations"
OpPatchConversation == "PATCH /api/conversations/:id"
OpDeleteConversation == "DELETE /api/conversations/:id"
OpPostActivity == "POST /api/activities"
OpSummary == "GET /api/summary/daily"

\* This step is the first step of a handler of op: last'.req is the request.
Received(op) == last'.seq # last.seq /\ requests' # requests /\ last'.op = op

\* This step is the second step of a handler of op, after its await.
Resumed(op) == last'.seq # last.seq /\ requests' = requests /\ last'.op = op

\* after is before with exactly one entry added (at the end, as a Map adds)
AppendsOne(before, after) ==
  /\ Len(after) = Len(before) + 1
  /\ SubSeq(after, 1, Len(before)) = before
  /\ ~MapHas(before, after[Len(after)].key)

Newest(map) == map[Len(map)].value

PositionIn(list, id) == CHOOSE i \in 1..Len(list) : list[i].id = id

\* C1: a chat request with a valid message and no conversationId adds, before
\* the provider is called, exactly one Conversation and one user Message of
\* it and nothing else; when the provider returns, the request adds exactly
\* one assistant Message of that conversation and one "chat" Activity and
\* nothing else, answers 200, and getMessages lists the request's user
\* message before its assistant message.
C1_ChatWithoutConversationId ==
  [][ /\ ( /\ Received(OpChat)
           /\ validChatMessage(last'.req.message)
           /\ last'.req.conversationId = NoId )
         => LET chat == last'.res
            IN  /\ last'.status = 0
                /\ AppendsOne(conversations, conversations')
                /\ Newest(conversations').id = chat.convId
                /\ AppendsOne(messages, messages')
                /\ Newest(messages') = chat.userMessage
                /\ chat.userMessage.role = "user"
                /\ chat.userMessage.conversationId = chat.convId
                /\ UNCHANGED <<goals, notes, activities>>
      /\ ( /\ Resumed(OpChat)
           /\ ~last'.req.provider.throws
           /\ last'.req.chat.req.conversationId = NoId )
         => LET chat == last'.req.chat
                listed == getMessages(messages', chat.convId)
            IN  /\ last'.status = 200
                /\ AppendsOne(messages, messages')
                /\ Newest(messages') = last'.res.message
                /\ last'.res.message.role = "assistant"
                /\ last'.res.message.conversationId = chat.convId
                /\ AppendsOne(activities, activities')
                /\ Newest(activities').type = "chat"
                /\ Len(conversations') = Len(conversations)
                /\ MapKeys(conversations') = MapKeys(conversations)
                /\ UNCHANGED <<goals, notes>>
                /\ PositionIn(listed, chat.userMessage.id)
                     < PositionIn(listed, last'.res.message.id)
    ]_vars

C1_Witness ==
  /\ last.op = OpChat
  /\ last.status = 200
  /\ last.req.chat.req.conversationId = NoId
  /\ Len(goals) = 1
  /\ Len(activities) = 3
  /\ getMessages(messages, last.req.chat.convId)
       = <<last.req.chat.userMessage, last.res.message>>

\* C2: a chat request naming a stored conversation creates no Conversation
\* and adds one user Message carrying that id before the provider is called;
\* when the provider returns it adds one assistant Message carrying that id
\* and one "chat" Activity, changes of that Conversation only updatedAt,
\* leaves every other Conversation, Goal and Note as it was, and answers
\* {message, conversationId} with message the stored assistant Message.
C2_ChatOnStoredConversation ==
  [][ /\ ( /\ Received(OpChat)
           /\ validChatMessage(last'.req.message)
           /\ last'.req.conversationId # NoId
           /\ MapHas(conversations, last'.req.conversationId) )
         => /\ last'.status = 0
            /\ conversations' = conversations
            /\ AppendsOne(messages, messages')
            /\ Newest(messages').role = "user"
            /\ Newest(messages').conversationId = last'.req.conversationId
            /\ UNCHANGED <<goals, notes, activities>>
      /\ ( /\ Resumed(OpChat)
           /\ ~last'.req.provider.throws
           /\ last'.req.chat.req.conversationId # NoId )
         => LET chat == last'.req.chat
                convId == chat.req.conversationId
            IN  /\ last'.status = 200
                /\ AppendsOne(messages, messages')
                /\ Newest(messages').role = "assistant"
                /\ Newest(messages').conversationId = convId
                /\ AppendsOne(activities, activities')
                /\ Newest(activities').type = "chat"
                /\ Len(conversations') = Len(conversations)
                /\ \A i \in 1..Len(conversations) :
                     conversations'[i] =
                       IF conversations[i].key = convId
                       THEN [key |-> convId,
                             value |-> [conversations[i].value EXCEPT !.updatedAt = now]]
                       ELSE conversations[i]
                /\ UNCHANGED <<goals, notes>>
                /\ last'.res.conversationId = convId
                /\ last'.res.message.conversationId = convId
                /\ MapHas(messages', last'.res.message.id)
                /\ MapGet(messages', last'.res.message.id) = last'.res.message
    ]_vars

C2_Witness ==
  /\ last.op = OpChat
  /\ last.status = 200
  /\ last.req.chat.req.conversationId # NoId
  /\ Len(conversations) = 2
  /\ Len(goals) = 1
  /\ Len(notes) = 1
  /\ getConversation(conversations, last.res.conversationId).updatedAt
       > getConversation(conversations, last.res.conversationId).createdAt

\* C3: a chat request with a valid message whose conversationId names no
\* stored Conversation is answered 404, changes none of the five stores and
\* calls no provider.
C3_ChatOnUnknownConversation ==
  [][ ( /\ Received(OpChat)
        /\ validChatMessage(last'.req.message)
        /\ last'.req.conversationId # NoId
        /\ ~MapHas(conversations, last'.req.conversationId) )
      => /\ last'.status = 404
         /\ UNCHANGED stores
         /\ UNCHANGED <<chats, nextId>>
    ]_vars

C3_Witness ==
  /\ last.op = OpChat
  /\ last.status = 404
  /\ Len(conversations) > 0
  /\ Len(messages) > 0

\* C4: a chat request whose message is missing, empty or not a string is
\* answered 400, changes none of the five stores and calls no provider,
\* whatever its conversationId.
C4_ChatWithoutMessage ==
  [][ ( /\ Received(OpChat)
        /\ \/ last'.req.message.kind # "string"
           \/ last'.req.message.text = "" )
      => /\ last'.status = 400
         /\ UNCHANGED stores
         /\ UNCHANGED <<chats, nextId>>
    ]_vars

C4_Witness ==
  /\ last.op = OpChat
  /\ last.status = 400
  /\ last.req.message = NotAString
  /\ MapHas(conversations, last.req.conversationId)
  /\ Len(messages) > 0

\* C5: when the provider call fails, the chat request is answered 500 and
\* that step writes nothing and undoes nothing: all five stores are as they
\* were, so the request's user Message is still stored, no assistant Message
\* and no Activity is added and no updatedAt is touched.
C5_ProviderFailure ==
  [][ ( /\ Resumed(OpChat)
        /\ last'.req.provider.throws )
      => LET chat == last'.req.chat
         IN  /\ last'.status = 500
             /\ UNCHANGED stores
             /\ UNCHANGED nextId
             /\ MapHas(messages', chat.userMessage.id)
             /\ MapGet(messages', chat.userMessage.id) = chat.userMessage
             /\ chat \notin chats'
    ]_vars

C5_Witness ==
  /\ last.op = OpChat
  /\ last.status = 500
  /\ last.req.chat.req.conversationId = NoId
  /\ MapHas(conversations, last.req.chat.convId)
  /\ getMessages(messages, last.req.chat.convId) = <<last.req.chat.userMessage>>
  /\ Len(activities) = 0

\* C6: every stored Message's conversationId is the id of a stored
\* Conversation.
C6_MessagesNameStoredConversations ==
  \A i \in 1..Len(messages) : MapHas(conversations, messages[i].value.conversationId)

\* C7: once a chat request has finished, with 200 or with 500, its
\* Conversation's updatedAt is no earlier than the createdAt of every Message
\* stored for that conversation.
C7_UpdatedAtCoversEveryMessage ==
  (last.op = OpChat /\ last.status \in {200, 500})
  => LET convId == last.req.chat.convId
     IN  MapHas(conversations, convId)
         => \A i \in 1..Len(messages) :
              messages[i].value.conversationId = convId
              => getConversation(conversations, convId).updatedAt
                   >= messages[i].value.createdAt

\* C8: a Goal create, Goal update, Note create or Note update that is
\* answered 200 appends exactly one Activity, of type goal_created,
\* goal_updated or goal_completed, note_created, note_updated respectively;
\* a step of these handlers that is not answered 200 appends none.
C8_OneActivityPerMutation ==
  [][ /\ (Received(OpPostGoal) /\ last'.status = 200)
         => AppendsOne(activities, activities')
            /\ Newest(activities').type = "goal_created"
      /\ (Resumed(OpPatchGoal) /\ last'.status = 200)
         => AppendsOne(activities, activities')
            /\ Newest(activities').type \in {"goal_updated", "goal_completed"}
      /\ (Received(OpPostNote) /\ last'.status = 200)
         => AppendsOne(activities, activities')
            /\ Newest(activities').type = "note_created"
      /\ (Received(OpPatchNote) /\ last'.status = 200)
         => AppendsOne(activities, activities')
            /\ Newest(activities').type = "note_updated"
      /\ ( /\ last'.seq # last.seq
           /\ last'.op \in {OpPostGoal, OpPatchGoal, OpPostNote, OpPatchNote}
           /\ last'.status # 200 )
         => activities' = activities
    ]_vars

C8_Witness ==
  /\ last.op = OpPatchNote
  /\ last.status = 200
  /\ Len(activities) = 3
  /\ Len(goals) = 1
  /\ {activities[i].value.type : i \in 1..3} = {"goal_created", "note_created", "note_updated"}

Lacks(body, fields) == \E f \in fields : f \notin DOMAIN body

IllTyped(body, stringFields) ==
  \E f \in stringFields \cap DOMAIN body : body[f].kind # "string"

\* C11: a POST of a goal, note, conversation or activity whose body lacks a
\* required field or carries a non-string where the schema wants a string is
\* answered 400 and changes no store: no entity and no Activity is created.
C11_InvalidCreateRejected ==
  [][ ( \/ /\ Received(OpPostGoal)
           /\ Lacks(last'.req, {"title", "category"}) \/ IllTyped(last'.req, {"title"})
        \/ /\ Received(OpPostNote)
           /\ Lacks(last'.req, {"title", "content"}) \/ IllTyped(last'.req, {"title"})
        \/ /\ Received(OpPostConversation)
           /\ Lacks(last'.req, {"title"}) \/ IllTyped(last'.req, {"title"})
        \/ /\ Received(OpPostActivity)
           /\ \/ Lacks(last'.req, {"type", "description"})
              \/ IllTyped(last'.req, {"type", "description"}) )
      => /\ last'.status = 400
         /\ UNCHANGED stores
         /\ UNCHANGED nextId
    ]_vars

C11_Witness ==
  /\ last.op = OpPostActivity
  /\ last.status = 400
  /\ last.req.type = NotAString
  /\ Len(goals) = 1
  /\ Len(activities) = 2

\* C12: a PATCH of a stored goal, note or conversation whose body carries a
\* title that is no string is answered 400 and leaves every store as it was.
C12_IllTypedPatchRejected ==
  [][ ( /\ last'.seq # last.seq
        /\ last'.status # 0
        /\ \/ last'.op = OpPatchGoal /\ MapHas(goals, last'.req.id)
           \/ last'.op = OpPatchNote /\ MapHas(notes, last'.req.id)
           \/ last'.op = OpPatchConversation /\ MapHas(conversations, last'.req.id)
        /\ IllTyped(last'.req.body, {"title"}) )
      => /\ last'.status = 400
         /\ UNCHANGED stores
    ]_vars

\* C13: a PATCH or DELETE of a goal, note or conversation whose id is not
\* stored when the handler reaches the store is answered 404 and changes no
\* store: no Activity is appended and no record appears under that id.
C13_UnknownIdNotFound ==
  [][ /\ ( /\ last'.seq # last.seq
           /\ \/ last'.op = OpPatchGoal /\ ~MapHas(goals, last'.req.id)
              \/ last'.op = OpPatchNote /\ ~MapHas(notes, last'.req.id)
              \/ last'.op = OpPatchConversation /\ ~MapHas(conversations, last'.req.id) )
         => /\ last'.status = 404
            /\ UNCHANGED stores
            /\ UNCHANGED nextId
      /\ ( \/ Received(OpDeleteGoal) /\ ~MapHas(goals, last'.req)
           \/ Received(OpDeleteNote) /\ ~MapHas(notes, last'.req)
           \/ Received(OpDeleteConversation) /\ ~MapHas(conversations, last'.req) )
         => /\ last'.status = 404
            /\ UNCHANGED stores
            /\ UNCHANGED nextId
    ]_vars

\* a PATCH of a goal that was deleted between the handler's read and its update
C13_Witness ==
  /\ last.op = OpPatchGoal
  /\ last.status = 404
  /\ "existingGoal" \in DOMAIN last.req
  /\ Len(goals) = 0
  /\ Len(activities) = 1

\* the record stored under id before and after this step, for the PATCH
\* handlers' 200 steps
PatchedStore(op) ==
  IF op = OpPatchGoal THEN <<goals, goals'>>
  ELSE IF op = OpPatchNote THEN <<notes, notes'>>
  ELSE <<conversations, conversations'>>

\* C14: a PATCH answered 200 stores and returns a record in which every
\* field the patch names, other than id and updatedAt, has the patch's value,
\* every field it does not name keeps its stored value, id is the id the
\* record was stored under and updatedAt is the current time, whatever id and
\* updatedAt the patch carries; every other record of the store is as it
\* was.  So an empty patch changes updatedAt alone, and a patch of progress
\* leaves completed alone and the reverse.
C14_UpdateMerges ==
  [][ ( /\ last'.seq # last.seq
        /\ last'.op \in {OpPatchGoal, OpPatchNote, OpPatchConversation}
        /\ last'.status = 200 )
      => LET id == last'.req.id
             body == last'.req.body
             before == PatchedStore(last'.op)[1]
             after == PatchedStore(last'.op)[2]
             old == MapGet(before, id)
             new == MapGet(after, id)
         IN  /\ MapHas(before, id) /\ MapHas(after, id)
             /\ last'.res = new
             /\ DOMAIN new = (DOMAIN old) \cup (DOMAIN body)
             /\ \A f \in (DOMAIN body) \ {"id", "updatedAt"} : new[f] = body[f]
             /\ \A f \in (DOMAIN old) \ ((DOMAIN body) \cup {"id", "updatedAt"}) :
                  new[f] = old[f]
             /\ new.id = id /\ old.id = id
             /\ new.updatedAt = now
             /\ Len(after) = Len(before)
             /\ \A i \in 1..Len(before) :
                  before[i].key # id => after[i] = before[i]
             /\ body = <<>> => new = [old EXCEPT !.updatedAt = now]
             /\ ("progress" \in DOMAIN body /\ "completed" \notin DOMAIN body)
                  => new.completed = old.completed
             /\ ("completed" \in DOMAIN body /\ "progress" \notin DOMAIN body)
                  => new.progress = old.progress
    ]_vars

\* a patch carrying another id, another updatedAt and a progress, on a goal
\* created completed
C14_Witness ==
  /\ last.op = OpPatchGoal
  /\ last.status = 200
  /\ last.req.body = [id |-> NoId, updatedAt |-> InvalidDate, progress |-> 50]
  /\ last.res.id = last.req.id
  /\ last.res.id # NoId
  /\ last.res.updatedAt = 1
  /\ last.res.createdAt = 0
  /\ last.res.progress = 50
  /\ last.res.completed = TRUE
  /\ getGoal(goals, last.req.id) = last.res

\* the record a DELETE step removes is the only change of its store
RemovesOnly(before, after, id) ==
  /\ MapHas(before, id)
  /\ ~MapHas(after, id)
  /\ Len(after) = Len(before) - 1
  /\ \A i \in 1..Len(before) :
       before[i].key # id => \E j \in 1..Len(after) : after[j] = before[i]

\* C15: a DELETE of a stored goal, note or conversation is answered 200 and
\* removes exactly that record, every other record of every store staying as
\* it was; a DELETE of an id that is not stored is answered 404 and changes
\* nothing; so the DELETE that repeats the DELETE just answered 200 is
\* answered 404.
C15_DeleteOnce ==
  [][ /\ Received(OpDeleteGoal)
         => IF MapHas(goals, last'.req)
            THEN /\ last'.status = 200
                 /\ RemovesOnly(goals, goals', last'.req)
                 /\ UNCHANGED <<conversations, messages, notes, activities>>
            ELSE last'.status = 404 /\ UNCHANGED stores
      /\ Received(OpDeleteNote)
         => IF MapHas(notes, last'.req)
            THEN /\ last'.status = 200
                 /\ RemovesOnly(notes, notes', last'.req)
                 /\ UNCHANGED <<conversations, messages, goals, activities>>
            ELSE last'.status = 404 /\ UNCHANGED stores
      /\ Received(OpDeleteConversation)
         => IF MapHas(conversations, last'.req)
            THEN /\ last'.status = 200
                 /\ RemovesOnly(conversations, conversations', last'.req)
                 /\ UNCHANGED <<messages, goals, notes, activities>>
            ELSE last'.status = 404 /\ UNCHANGED stores
      /\ ( /\ last.op \in DeleteOps
           /\ last.status = 200
           /\ Received(last.op)
           /\ last'.req = last.req )
         => last'.status = 404
    ]_vars

\* the second DELETE of a note: the note was created (its Activity is the
\* log), the three requests were its POST and two DELETEs of its id
C15_Witness ==
  /\ last.op = OpDeleteNote
  /\ last.status = 404
  /\ last.req < nextId
  /\ requests = 3
  /\ Len(notes) = 0
  /\ Len(activities) = 1
  /\ activities[1].value.type = "note_created"

\* the record under key is in after what it is in before
Kept(before, after, key) ==
  MapHas(after, key) /\ MapGet(after, key) = MapGet(before, key)

\* this step belongs to a PATCH or a DELETE of the record under key
StepUpdates(key, patchOp, deleteOp) ==
  /\ last'.seq # last.seq
  /\ \/ last'.op = patchOp /\ last'.req.id = key
     \/ last'.op = deleteOp /\ last'.req = key

\* C16: the record a create returns is the record stored under its id, a
\* fresh one, and a stored Conversation, Message, Goal or Note stays as it is
\* through every step that is not an update or a delete of its own id; so a
\* get of a created id before any update or delete of it returns the record
\* create returned, whatever happens to other ids in between.
C16_GetAfterCreate ==
  [][ /\ (Received(OpPostGoal) /\ last'.status = 200)
         => /\ ~MapHas(goals, last'.res.id)
            /\ MapHas(goals', last'.res.id)
            /\ getGoal(goals', last'.res.id) = last'.res
      /\ (Received(OpPostNote) /\ last'.status = 200)
         => /\ ~MapHas(notes, last'.res.id)
            /\ MapHas(notes', last'.res.id)
            /\ getNote(notes', last'.res.id) = last'.res
      /\ (Received(OpPostConversation) /\ last'.status = 200)
         => /\ ~MapHas(conversations, last'.res.id)
            /\ MapHas(conversations', last'.res.id)
            /\ getConversation(conversations', last'.res.id) = last'.res
      /\ (Received(OpChat) /\ last'.status = 0)
         => LET chat == last'.res
            IN  /\ ~MapHas(messages, chat.userMessage.id)
                /\ MapHas(messages', chat.userMessage.id)
                /\ getMessage(messages', chat.userMessage.id) = chat.userMessage
                /\ last'.req.conversationId = NoId
                     => /\ ~MapHas(conversations, chat.convId)
                        /\ MapHas(conversations', chat.convId)
                        /\ getConversation(conversations', chat.convId)
                             = newConversation([title |-> Str(chatTitle(chat.message))],
                                               chat.convId, now)
      /\ (Resumed(OpChat) /\ last'.status = 200)
         => /\ ~MapHas(messages, last'.res.message.id)
            /\ MapHas(messages', last'.res.message.id)
            /\ getMessage(messages', last'.res.message.id) = last'.res.message
      /\ \A key \in MapKeys(goals) :
           Kept(goals, goals', key) \/ StepUpdates(key, OpPatchGoal, OpDeleteGoal)
      /\ \A key \in MapKeys(notes) :
           Kept(notes, notes', key) \/ StepUpdates(key, OpPatchNote, OpDeleteNote)
      /\ \A key \in MapKeys(conversations) :
           \/ Kept(conversations, conversations', key)
           \/ StepUpdates(key, OpPatchConversation, OpDeleteConversation)
           \/ Resumed(OpChat) /\ last'.req.chat.convId = key
      /\ \A key \in MapKeys(messages) : Kept(messages, messages', key)
    ]_vars

\* a goal, a conversation and its user message as create returned them at
\* time 0, after the DELETE of another conversation at time 1
C16_Witness ==
  /\ last.op = OpDeleteConversation
  /\ last.status = 200
  /\ now = 1
  /\ Len(goals) = 1
  /\ \E body \in GoalBodies :
       /\ validInsertGoal(body)
       /\ getGoal(goals, goals[1].key) = newGoal(parseInsertGoal(body), goals[1].key, 0)
  /\ Len(messages) = 1
  /\ getMessage(messages, messages[1].key)
       = newMessage([conversationId |-> messages[1].value.conversationId,
                     role |-> "user", content |-> "Hello"], messages[1].key, 0)
  /\ Len(conversations) = 1
  /\ conversations[1].key = messages[1].value.conversationId
  /\ getConversation(conversations, conversations[1].key)
       = newConversation([title |-> Str("Hello")], conversations[1].key, 0)

\* a is a time no earlier than the time b; no time compares with a value
\* that is no date
NotEarlier(a, b) == ~IsNaN(a) /\ ~IsNaN(b) /\ a >= b

\* list holds the values of map, each once
ListsAll(list, map) ==
  /\ Len(list) = Len(map)
  /\ \A i \in 1..Len(map) : \E j \in 1..Len(list) : list[j] = map[i].value
  /\ \A i, j \in 1..Len(list) : list[i].id = list[j].id => i = j

NewestFirst(list) ==
  \A i, j \in 1..Len(list) : i < j => NotEarlier(list[i].createdAt, list[j].createdAt)

\* C17: in every state getMessages(c) is the stored Messages of c, each
\* once, oldest first; getConversations is the stored Conversations, latest
\* updatedAt first; getGoals, getNotes and getActivities are the stored
\* records, each once, newest createdAt first.
C17_ListingsSorted ==
  /\ \A c \in {messages[i].value.conversationId : i \in 1..Len(messages)} :
       LET listed == getMessages(messages, c)
       IN  /\ \A i \in 1..Len(messages) :
                messages[i].value.conversationId = c
                => \E j \in 1..Len(listed) : listed[j] = messages[i].value
           /\ \A j \in 1..Len(listed) :
                /\ listed[j].conversationId = c
                /\ MapHas(messages, listed[j].id)
                /\ getMessage(messages, listed[j].id) = listed[j]
           /\ \A i, j \in 1..Len(listed) :
                /\ i < j => NotEarlier(listed[j].createdAt, listed[i].createdAt)
                /\ listed[i].id = listed[j].id => i = j
  /\ LET listed == getConversations(conversations)
     IN  /\ ListsAll(listed, conversations)
         /\ \A i, j \in 1..Len(listed) :
              i < j => NotEarlier(listed[i].updatedAt, listed[j].updatedAt)
  /\ ListsAll(getGoals(goals), goals) /\ NewestFirst(getGoals(goals))
  /\ ListsAll(getNotes(notes), notes) /\ NewestFirst(getNotes(notes))
  /\ ListsAll(getActivities(activities), activities)
  /\ NewestFirst(getActivities(activities))

\* C18: no step removes or changes a stored Activity: the log after a step
\* is the log before it with Activities appended, so every Activity keeps
\* its id, type, description and createdAt and the log never shrinks.
C18_ActivitiesAppendOnly ==
  [][ /\ Len(activities') >= Len(activities)
      /\ SubSeq(activities', 1, Len(activities)) = activities
      /\ \A i \in 1..Len(activities) :
           /\ MapHas(activities', activities[i].key)
           /\ MapGet(activities', activities[i].key) = activities[i].value
    ]_vars

\* the log after a goal's and a note's creation, a chat and the goal's deletion
C18_Witness ==
  /\ last.op = OpDeleteGoal
  /\ last.status = 200
  /\ Len(goals) = 0
  /\ Len(activities) = 3
  /\ {activities[i].value.type : i \in 1..3} = {"goal_created", "note_created", "chat"}

\* what createGoal and createConversation stamp, common to C19 as stated and
\* as amended
CreateStampsGoalsAndConversations ==
  /\ (Received(OpPostGoal) /\ last'.status = 200)
     => LET body == last'.req
            goal == getGoal(goals', last'.res.id)
        IN  /\ goal = last'.res
            /\ goal.progress = IF "progress" \in DOMAIN body THEN body.progress ELSE 0
            /\ goal.completed = IF "completed" \in DOMAIN body THEN body.completed
                                ELSE FALSE
            /\ goal.createdAt = now
            /\ goal.updatedAt = goal.createdAt
  /\ (Received(OpPostConversation) /\ last'.status = 200)
     => LET conversation == getConversation(conversations', last'.res.id)
        IN  /\ conversation = last'.res
            /\ conversation.createdAt = now
            /\ conversation.updatedAt = conversation.createdAt

\* C19 as stated: a created goal has progress 0 and completed false where
\* the input leaves them out and the input's values otherwise; a created
\* note has tags [] where the input leaves tags out and the input's tags
\* otherwise; goals, notes and conversations are created with updatedAt
\* equal to createdAt.
C19_DefaultsOnlyWhenAbsent ==
  [][ /\ CreateStampsGoalsAndConversations
      /\ (Received(OpPostNote) /\ last'.status = 200)
         => LET body == last'.req
                note == getNote(notes', last'.res.id)
            IN  /\ note = last'.res
                /\ note.tags = IF "tags" \in DOMAIN body THEN body.tags ELSE Arr(<<>>)
                /\ note.createdAt = now
                /\ note.updatedAt = note.createdAt
    ]_vars

\* C19 as amended: as stated, but a created note has tags [] where the
\* input leaves tags out or gives null, and the input's tags otherwise.
C19_DefaultsWhenAbsentOrNull ==
  [][ /\ CreateStampsGoalsAndConversations
      /\ (Received(OpPostNote) /\ last'.status = 200)
         => LET body == last'.req
                note == getNote(notes', last'.res.id)
            IN  /\ note = last'.res
                /\ note.tags = IF "tags" \in DOMAIN body /\ body.tags # Null
                               THEN body.tags ELSE Arr(<<>>)
                /\ note.createdAt = now
                /\ note.updatedAt = note.createdAt
    ]_vars

\* a note created from tags: null, after a goal created with progress and
\* completed given and a note created with tags given
C19_Witness ==
  /\ last.op = OpPostNote
  /\ last.status = 200
  /\ "tags" \in DOMAIN last.req
  /\ last.req.tags = Null
  /\ last.res.tags = Arr(<<>>)
  /\ getNote(notes, last.res.id) = last.res
  /\ \E i \in 1..Len(notes) : notes[i].value.tags = Arr(<<"home">>)
  /\ \E i \in 1..Len(goals) :
       goals[i].value.progress = 100 /\ goals[i].value.completed = TRUE

\* C20: GET /api/summary/daily is answered 200 with date, totalChats,
\* goalsCompleted, notesCreated and a non-empty insights list whatever the
\* provider does (throws, returns no text, an empty list, a list, or text
\* that is no JSON); when the provider throws, insights is the fixed two-item
\* list; the request changes no store.
C20_SummaryNeverFails ==
  [][ Received(OpSummary)
      => /\ last'.status = 200
         /\ DOMAIN last'.res =
              {"date", "totalChats", "goalsCompleted", "notesCreated", "insights"}
         /\ Len(last'.res.insights) > 0
         /\ last'.req.throws
              => last'.res.insights
                   = <<"Keep building your momentum!", "Great progress today.">>
         /\ (~last'.req.throws /\ last'.req.text \in {"", "[]"})
              => last'.res.insights
                   = <<"Keep up the great work!", "Every step forward counts.">>
         /\ UNCHANGED stores
    ]_vars

\* the provider throws on a day with a chat logged
C20_Witness ==
  /\ last.op = OpSummary
  /\ last.status = 200
  /\ last.req.throws
  /\ last.res.totalChats = 1
  /\ Len(last.res.insights) = 2
  /\ Len(activities) > 1

\* C21: when the provider returns without text, the chat request is
\* answered 200 as for a reply with text: the fixed fallback sentence is
\* stored as the one assistant Message added, the Conversation (if still
\* stored) gets updatedAt = now and nothing else of it changes, and one "chat"
\* Activity is appended.
C21_EmptyReplyFallback ==
  [][ ( /\ Resumed(OpChat)
        /\ ~last'.req.provider.throws
        /\ last'.req.provider.text = "" )
      => LET chat == last'.req.chat
         IN  /\ last'.status = 200
             /\ last'.res.conversationId = chat.convId
             /\ last'.res.message.role = "assistant"
             /\ last'.res.message.content
                  = "I'm sorry, I couldn't generate a response. Please try again."
             /\ last'.res.message.conversationId = chat.convId
             /\ AppendsOne(messages, messages')
             /\ Newest(messages') = last'.res.message
             /\ AppendsOne(activities, activities')
             /\ Newest(activities').type = "chat"
             /\ MapKeys(conversations') = MapKeys(conversations)
             /\ \A i \in 1..Len(conversations) :
                  conversations'[i] =
                    IF conversations[i].key = chat.convId
                    THEN [key |-> chat.convId,
                          value |-> [conversations[i].value EXCEPT !.updatedAt = now]]
                    ELSE conversations[i]
             /\ UNCHANGED <<goals, notes>>
    ]_vars

\* an empty reply at time 1 to a chat that opened its conversation at time 0
C21_Witness ==
  /\ last.op = OpChat
  /\ last.status = 200
  /\ last.req.provider = [throws |-> FALSE, text |-> ""]
  /\ last.res.message.content = FallbackReply
  /\ MapHas(conversations, last.res.conversationId)
  /\ getConversation(conversations, last.res.conversationId).createdAt = 0
  /\ getConversation(conversations, last.res.conversationId).updatedAt = 1
  /\ Newest(activities).type = "chat"

\* the stored Activities of a type created on the calendar day of time t
LoggedOn(type, t) ==
  {i \in 1..Len(activities) :
     /\ activities[i].value.type = type
     /\ activities[i].value.createdAt \div TicksPerDay = t \div TicksPerDay}

\* C22: the summary's totalChats, goalsCompleted and notesCreated are the
\* numbers of stored Activities created on the calendar day of the request
\* with type "chat", "goal_completed" and "note_created"; its date is that
\* day; the request changes no store.
C22_SummaryCounts ==
  [][ (Received(OpSummary) /\ last'.status = 200)
      => /\ last'.res.date = now \div TicksPerDay
         /\ last'.res.totalChats = Cardinality(LoggedOn("chat", now))
         /\ last'.res.goalsCompleted = Cardinality(LoggedOn("goal_completed", now))
         /\ last'.res.notesCreated = Cardinality(LoggedOn("note_created", now))
         /\ UNCHANGED stores
         /\ UNCHANGED nextId
    ]_vars

\* a summary on the second day: of two "chat" Activities one is of the day
\* before, as is the one "note_created" Activity; "goal_created" counts nowhere
C22_Witness ==
  /\ last.op = OpSummary
  /\ last.status = 200
  /\ now = 1
  /\ last.res.totalChats = 1
  /\ last.res.notesCreated = 0
  /\ last.res.goalsCompleted = 0
  /\ Cardinality({i \in 1..Len(activities) : activities[i].value.type = "chat"}) = 2
  /\ \E i \in 1..Len(activities) : activities[i].value.type = "note_created"
  /\ \E i \in 1..Len(activities) : activities[i].value.type = "goal_created"

\* the entries of a Message store that belong to a conversation, in the
\* order they were stored
EntriesOf(msgs, convId) == SelectSeq(msgs, LAMBDA e : e.value.conversationId = convId)

\* C23: the history a chat request hands to chatWithAI is the list of the
\* Messages stored for its conversation before the request, oldest first,
\* each with its role and content; the user Message the request stores is
\* not part of it, the stored Messages of a chat still in flight are.
C23_HistoryExcludesOwnMessage ==
  [][ (Received(OpChat) /\ last'.status = 0)
      => LET chat == last'.res
             before == EntriesOf(messages, chat.convId)
             history == chat.conversationHistory
         IN  /\ ~MapHas(messages, chat.userMessage.id)
             /\ MapGet(messages', chat.userMessage.id) = chat.userMessage
             /\ chat.userMessage.content = chat.message
             /\ Len(history) = Len(before)
             /\ \A i \in 1..Len(before) :
                  history[i] = [role |-> before[i].value.role,
                                content |-> before[i].value.content]
             /\ \A i, j \in 1..Len(before) :
                  i < j => before[i].value.createdAt <= before[j].value.createdAt
             /\ \A other \in chats :
                  other.convId = chat.convId
                    => \E i \in 1..Len(before) : before[i].value = other.userMessage
    ]_vars

\* two chats wait for the provider on one conversation: the history of the
\* later one holds the user message of the earlier one and not its own
C23_Witness ==
  /\ last.op = OpChat
  /\ last.status = 0
  /\ Cardinality(chats) = 2
  /\ last.res \in chats
  /\ \A chat \in chats : chat.convId = last.res.convId
  /\ last.res.message = LongMessage
  /\ last.res.conversationHistory = <<[role |-> "user", content |-> "Hello"]>>
  /\ Len(EntriesOf(messages, last.res.convId)) = 2

OpGetMessages == "GET /api/conversations/:conversationId/messages"

AssistantMessages(msgs) == {i \in 1..Len(msgs) : msgs[i].value.role = "assistant"}

\* every chat waiting for the provider has its user Message stored and listed
WaitingChatsAreStored ==
  \A chat \in chats :
    /\ MapGet(messages, chat.userMessage.id) = chat.userMessage
    /\ \E i \in 1..Len(getMessages(messages, chat.convId)) :
         getMessages(messages, chat.convId)[i] = chat.userMessage

\* a chat that stays waiting gets no response, no assistant Message and no
\* "chat" Activity: each of them comes with the provider's answer to a chat
\* that waits no longer
OnlyAnsweredChatsProceed ==
  /\ (AssistantMessages(messages') # AssistantMessages(messages))
       => \E chat \in chats : chats' = chats \ {chat}
  /\ (last'.seq # last.seq /\ last'.op = OpChat /\ last'.status \in {200, 500})
       => /\ last'.req.chat \in chats
          /\ chats' = chats \ {last'.req.chat}
  /\ (activities' # activities /\ last'.op # OpPostActivity
        /\ Newest(activities').type = "chat")
       => (last'.op = OpChat /\ last'.req.chat \in chats \ chats')

\* a request served while chats wait leaves them waiting, and a listing of
\* the messages of their conversation shows their user Messages
OthersRunBesideWaitingChats ==
  /\ (Received(OpGetMessages) /\ last'.status = 200)
       => \A chat \in chats :
            chat.convId = last'.req
              => \E i \in 1..Len(last'.res) : last'.res[i] = chat.userMessage
  /\ (last'.seq # last.seq /\ ~Resumed(OpChat)) => chats \subseteq chats'

\* C24: a chat waiting for the provider has its user Message stored, and a
\* listing served meanwhile shows it; a response to the chat, an assistant
\* Message and a "chat" Activity of it come only with the provider's answer;
\* requests served meanwhile leave the chat waiting, and a PATCH of a goal
\* that has read its goal completes whether or not the provider ever answers.
C24_WaitingChatBlocksOnlyItself ==
  /\ []WaitingChatsAreStored
  /\ [][OnlyAnsweredChatsProceed /\ OthersRunBesideWaitingChats]_vars
  /\ (patches # {}) ~> (patches = {})

\* a chat waits for the provider while the listing of its conversation has
\* been served with its user Message in it
C24_Witness ==
  /\ last.op = OpGetMessages
  /\ last.status = 200
  /\ Cardinality(chats) = 1
  /\ \A chat \in chats : last.req = chat.convId /\ last.res = <<chat.userMessage>>
  /\ AssistantMessages(messages) = {}
  /\ last.sent = 1
  /\ requests = 2

\* C25: the Conversation a chat without conversationId creates has the
\* message as its title when the message has at most 50 characters, and
\* otherwise the first 50 characters of the message followed by "...", which
\* makes 53 characters.
C25_AutoTitle ==
  [][ (Received(OpChat) /\ last'.status = 0 /\ last'.req.conversationId = NoId)
      => LET message == last'.req.message.text
             title == MapGet(conversations', last'.res.convId).title.text
         IN  /\ AppendsOne(conversations, conversations')
             /\ Len(message) <= 50 => title = message
             /\ Len(message) > 50
                  => /\ Len(title) = 53
                     /\ SubSeq(title, 1, 50) = SubSeq(message, 1, 50)
                     /\ SubSeq(title, 51, 53) = "..."
    ]_vars

\* the conversation opened by the 70-character message, its reply stored
C25_Witness ==
  /\ Len(conversations) = 1
  /\ Len(LongMessage) = 70
  /\ Len(messages) = 2
  /\ messages[1].value.content = LongMessage
  /\ conversations[1].value.title.text
       = "Plan my week: gym on Monday, report due Wednesday,..."
  /\ Len(conversations[1].value.title.text) = 53

\* the requests received whose handler waits at an await
Waiting == Cardinality(chats) + Cardinality(patches)

\* a step sends at most one response, with a status of the API, and it is
\* the response of the request received in the step or of one handler that
\* waited; a request received is answered in the step or waits from then on
OneResponsePerStep ==
  /\ last'.sent \in {last.sent, last.sent + 1}
  /\ last'.sent = last.sent + 1 => last'.status \in {200, 400, 404, 500}
  /\ requests' \in {requests, requests + 1}
  /\ (requests' = requests + 1 /\ last'.sent = last.sent)
       => (last'.status = 0 /\ Waiting' = Waiting + 1)
  /\ (requests' = requests + 1 /\ last'.sent = last.sent + 1) => Waiting' = Waiting
  /\ (requests' = requests /\ last'.sent = last.sent + 1) => Waiting' = Waiting - 1
  /\ (requests' = requests /\ last'.sent = last.sent) => Waiting' = Waiting

\* C26: the responses sent are as many as the requests received less those
\* whose handler waits at an await; no step sends two responses; every
\* response has status 200, 400, 404 or 500; and when every provider call
\* returns or throws, every request received is answered in the end.
C26_ExactlyOneResponse ==
  /\ [](last.sent + Waiting = requests)
  /\ [][OneResponsePerStep]_vars
  /\ (last.sent < requests) ~> (last.sent = requests)

\* a PATCH of a goal and a chat whose provider threw, both answered
C26_Witness ==
  /\ requests = 2
  /\ last.sent = 2
  /\ Waiting = 0
  /\ last.op = OpChat
  /\ last.status = 500
  /\ Len(activities) > 0
  /\ Newest(activities).type = "goal_updated"

\* the positions of the Messages of a role among the first n of a listing
OfRole(list, role, n) == {i \in 1..n : list[i].role = role}

\* in the listing of every conversation, up to every position, the assistant
\* Messages are at most as many as the user Messages
RepliesNeverOutnumber ==
  \A e \in {messages[i].value : i \in 1..Len(messages)} :
    LET list == getMessages(messages, e.conversationId)
    IN  \A n \in 1..Len(list) :
          Cardinality(OfRole(list, "assistant", n)) <= Cardinality(OfRole(list, "user", n))

\* the reply stored for a chat is listed after the user Message of that chat
ReplyListedAfterItsRequest ==
  (Resumed(OpChat) /\ last'.status = 200)
    => LET chat == last'.req.chat
           list == getMessages(messages', chat.convId)
       IN  /\ \E i \in 1..Len(list) : list[i] = chat.userMessage
           /\ \E j \in 1..Len(list) : list[j] = last'.res.message
           /\ \A i, j \in 1..Len(list) :
                (list[i].id = chat.userMessage.id /\ list[j].id = last'.res.message.id)
                  => i < j

\* C27: with chats in flight on one conversation or not, getMessages of every
\* conversation lists at most as many assistant Messages as user Messages, up
\* to every position of the listing, and the reply of a chat is listed after
\* the user Message of that chat.
C27_RepliesFollowRequests ==
  /\ []RepliesNeverOutnumber
  /\ [][ReplyListedAfterItsRequest]_vars

\* two chats were in flight on one conversation, and the one that came first
\* was answered last, a tick later: both user Messages, then both replies
C27_Witness ==
  /\ last.op = OpChat
  /\ last.status = 200
  /\ Len(messages) = 4
  /\ LET list == getMessages(messages, last.res.conversationId)
     IN  /\ Len(list) = 4
         /\ list[1] = last.req.chat.userMessage
         /\ list[2].role = "user"
         /\ list[3].role = "assistant"
         /\ list[4] = last.res.message
         /\ list[1].createdAt = 0
         /\ list[4].createdAt = 1

\* C28: a PATCH of a goal appends a "goal_completed" Activity exactly when it
\* changes the stored completed of the goal from false to true, also when
\* another PATCH of the goal ran between its read of the goal and its update.
C28_CompletionLoggedOncePerChange ==
  [][ (Resumed(OpPatchGoal) /\ last'.status = 200)
      => LET id == last'.req.id
         IN  /\ AppendsOne(activities, activities')
             /\ (Newest(activities').type = "goal_completed")
                  <=> (MapGet(goals, id).completed = FALSE
                         /\ MapGet(goals', id).completed = TRUE)
    ]_vars

\* every record of the store is held under its id, no key occurs twice, and
\* every key has been handed out by the id generator
KeyedById(map) ==
  /\ \A i \in 1..Len(map) : map[i].value.id = map[i].key
  /\ \A i, j \in 1..Len(map) : map[i].key = map[j].key => i = j
  /\ \A i \in 1..Len(map) : map[i].key < nextId

\* the keys a step adds to a store were never handed out before
AddsFreshKeys(before, after) ==
  \A k \in MapKeys(after) \ MapKeys(before) : k >= nextId /\ k < nextId'

OpUpdates == {OpPatchConversation, OpPatchGoal, OpPatchNote}

\* C29: in every state each of the five stores holds every record under its
\* id, with no id twice; a key that enters a store is one the id generator
\* never handed out before; and an update, whatever id its patch carries,
\* leaves the keys of every store and the number of records as they were.
C29_StoresKeyedById ==
  /\ [](/\ KeyedById(conversations)
        /\ KeyedById(messages)
        /\ KeyedById(goals)
        /\ KeyedById(notes)
        /\ KeyedById(activities))
  /\ [][ /\ nextId' >= nextId
         /\ AddsFreshKeys(conversations, conversations')
         /\ AddsFreshKeys(messages, messages')
         /\ AddsFreshKeys(goals, goals')
         /\ AddsFreshKeys(notes, notes')
         /\ AddsFreshKeys(activities, activities')
         /\ (last'.seq # last.seq /\ last'.op \in OpUpdates /\ last'.status = 200)
              => /\ MapKeys(conversations') = MapKeys(conversations)
                 /\ MapKeys(goals') = MapKeys(goals)
                 /\ MapKeys(notes') = MapKeys(notes)
                 /\ Len(conversations') = Len(conversations)
                 /\ Len(goals') = Len(goals)
                 /\ Len(notes') = Len(notes)
    ]_vars

\* a note updated with a patch that carries another id: one note, under its
\* key, with its id, and the title of the patch
C29_Witness ==
  /\ last.op = OpPatchNote
  /\ last.status = 200
  /\ "id" \in DOMAIN last.req.body
  /\ last.req.body.id # last.req.id
  /\ Len(notes) = 1
  /\ notes[1].key = last.req.id
  /\ notes[1].value.id = last.req.id
  /\ notes[1].value.title = Str("Renamed")
  /\ last.res = notes[1].value

ListAndGetOps ==
  {"GET /api/conversations", "GET /api/conversations/:id", OpGetMessages,
   "GET /api/goals", "GET /api/goals/:id", "GET /api/notes", "GET /api/notes/:id",
   "GET /api/activities"}

Counters(summary) ==
  <<summary.totalChats, summary.goalsCompleted, summary.notesCreated>>

\* a read request leaves the five stores as they are
ReadsWriteNothing ==
  (last'.seq # last.seq /\ last'.op \in ListAndGetOps \cup {OpSummary}) => UNCHANGED stores

\* the step serves the read that was served last again: no request was
\* received and no handler resumed in between, so nothing was written
RepeatsRead(op) ==
  /\ Received(op)
  /\ last.op = op
  /\ last.req = last'.req
  /\ last.status # 0

\* a list or get request served twice in a row gives the same response
ListAndGetRepeat ==
  \A op \in ListAndGetOps :
    RepeatsRead(op) => (last'.status = last.status /\ last'.res = last.res)

\* C30 as stated: a read request leaves the five stores unchanged, and a
\* read served twice with no write in between gives the same result both
\* times, the counters of the daily summary included.
C30_ReadsRepeatable ==
  [][ /\ ReadsWriteNothing
      /\ ListAndGetRepeat
      /\ (RepeatsRead(OpSummary) /\ last.status = 200 /\ last'.status = 200)
           => Counters(last'.res) = Counters(last.res)
    ]_vars

\* C30: a read request leaves the five stores unchanged; a list or get
\* request served twice with no write in between gives the same result; the
\* daily summary served twice with no write in between gives the same date
\* and counters when both requests fall on the same calendar day.
C30_ReadsRepeatableWithinDay ==
  [][ /\ ReadsWriteNothing
      /\ ListAndGetRepeat
      /\ (RepeatsRead(OpSummary) /\ last.status = 200 /\ last'.status = 200
            /\ last.res.date = now \div TicksPerDay)
           => (Counters(last'.res) = Counters(last.res) /\ last'.res.date = last.res.date)
    ]_vars

\* the second of two requests served on the first day is the daily summary:
\* it counts the one note created that day, and the stores are those the
\* first request found
C30_Witness ==
  /\ last.op = OpSummary
  /\ last.status = 200
  /\ last.seq = 2
  /\ requests = 2
  /\ now = 0
  /\ Counters(last.res) = <<0, 0, 1>>
  /\ Len(activities) = 2
  /\ Len(goals) = 1
  /\ Len(notes) = 1
  /\ Len(conversations) = 1
  /\ messages = <<>>
  /\ nextId = 6

====
